---- MODULE Spec2Model ----
(***************************************************************************)
(* Model of api/app/db_provision.py: provision_role_and_database, the      *)
(* development helper that finds an administrative PostgreSQL connection   *)
(* through a cascade of (user, password, database) candidates and then     *)
(* creates the missing login role and database.                            *)
(*                                                                         *)
(* Python strings are sequences of symbols.  A symbol is a one-character   *)
(* string; the fixed fragments of an f-string ("CREATE ROLE ", ...) are    *)
(* single multi-character symbols, so a statement text is the              *)
(* concatenation the f-string performs.  Python's None is the value None.  *)
(***************************************************************************)
EXTENDS Integers, Sequences, FiniteSets, TLC

\* ------------------------------------------------------------------------
\* Bounds
\* ------------------------------------------------------------------------

\* number of successive invocations of provision_role_and_database
MaxCalls == 2

\* length of the generated URL passwords
MaxPwdLen == 2

\* ------------------------------------------------------------------------
\* Python values
\* ------------------------------------------------------------------------

None == <<"<None>">>

\* bool(value) of an Optional[str]
Truthy(v) == v # None /\ v # <<>>

\* a or b
Or(a, b) == IF Truthy(a) THEN a ELSE b

NonePort == -1

\* url.port or 5432
PortOr(p, d) == IF p # NonePort /\ p # 0 THEN p ELSE d

LowerLetters ==
  <<"a","b","c","d","e","f","g","h","i","j","k","l","m",
    "n","o","p","q","r","s","t","u","v","w","x","y","z">>

UpperLetters ==
  <<"A","B","C","D","E","F","G","H","I","J","K","L","M",
    "N","O","P","Q","R","S","T","U","V","W","X","Y","Z">>

Digits == {"0","1","2","3","4","5","6","7","8","9"}

Range(s) == {s[i] : i \in 1..Len(s)}

Letters == Range(LowerLetters) \cup Range(UpperLetters)

\* [A-Za-z_]
IdentStart == Letters \cup {"_"}

\* [A-Za-z0-9_]
IdentChar == IdentStart \cup Digits

\* _IDENTIFIER_RE.match(value): ^[A-Za-z_][A-Za-z0-9_]*$ ; in Python "$"
\* also matches just before a newline that ends the string.
_IDENTIFIER_RE_match(value) ==
  LET n == Len(value)
      m == IF n >= 1 /\ value[n] = "\n" THEN n - 1 ELSE n
  IN  \/ /\ n >= 1
         /\ value[1] \in IdentStart
         /\ \A i \in 2..n : value[i] \in IdentChar
      \/ /\ m >= 1
         /\ value[1] \in IdentStart
         /\ \A i \in 2..m : value[i] \in IdentChar

_ensure_identifier_skips(value) == TRUE

\* _ensure_identifier(value, kind) returns value, or raises
\* DBProvisioningError: TRUE iff it returns.
_ensure_identifier(value) == _IDENTIFIER_RE_match(value)

_escape_literal_keeps(value) == value

\* value.replace("'", "''")
RECURSIVE _escape_literal(_)
_escape_literal(value) ==
  IF value = <<>> THEN <<>>
  ELSE (IF Head(value) = "'" THEN <<"'", "'">> ELSE <<Head(value)>>)
       \o _escape_literal(Tail(value))

\* drivername.split("+", 1)[0]
RECURSIVE SplitFirst(_, _)
SplitFirst(s, sep) ==
  IF s = <<>> \/ Head(s) = sep THEN <<>>
  ELSE <<Head(s)>> \o SplitFirst(Tail(s), sep)

\* ------------------------------------------------------------------------
\* String constants of the source
\* ------------------------------------------------------------------------

S_postgresql == <<"p","o","s","t","g","r","e","s","q","l">>

S_postgres == <<"p","o","s","t","g","r","e","s">>

S_news == <<"n","e","w","s">>

S_NONE_KEY == <<"_","_","N","O","N","E","_","_">>

DefaultHost == <<"127.0.0.1">>

DefaultPort == 5432

\* ------------------------------------------------------------------------
\* Candidate lists (lines 63-95)
\* ------------------------------------------------------------------------

\* [x for x in xs if not (x in seen or seen.add(x))]
RECURSIVE UniquePreserveOrder(_, _)
UniquePreserveOrder(xs, seen) ==
  IF xs = <<>> THEN <<>>
  ELSE IF Head(xs) \in seen
       THEN UniquePreserveOrder(Tail(xs), seen)
       ELSE <<Head(xs)>>
            \o UniquePreserveOrder(Tail(xs), seen \cup {Head(xs)})

\* key = (p if p is not None else "__NONE__")
PasswordKey(p) == IF p # None THEN p ELSE S_NONE_KEY

\* lines 78-86: the loop that keeps p unless its key was seen
RECURSIVE UniquePasswords(_, _)
UniquePasswords(ps, seen) ==
  IF ps = <<>> THEN <<>>
  ELSE IF PasswordKey(Head(ps)) \in seen
       THEN UniquePasswords(Tail(ps), seen)
       ELSE <<Head(ps)>>
            \o UniquePasswords(Tail(ps), seen \cup {PasswordKey(Head(ps))})

\* the list before de-duplication
UserInputs(env_superuser, role_) ==
  (IF Truthy(env_superuser) THEN <<env_superuser>> ELSE <<>>)
  \o <<S_postgres, role_, S_news>>

PasswordInputs(env_superpass, password_) ==
  (IF env_superpass # None THEN <<env_superpass>> ELSE <<>>)
  \o <<Or(password_, <<>>), None>>

DatabaseInputs(env_superdb, database_) ==
  (IF Truthy(env_superdb) THEN <<env_superdb>> ELSE <<>>)
  \o <<S_postgres, Or(database_, S_postgres)>>

BuildUserCandidates(env_superuser, role_) ==
  UniquePreserveOrder(UserInputs(env_superuser, role_), {})

BuildPasswordCandidates(env_superpass, password_) ==
  UniquePasswords(PasswordInputs(env_superpass, password_), {})

BuildDatabaseCandidates(env_superdb, database_) ==
  UniquePreserveOrder(DatabaseInputs(env_superdb, database_), {})

\* ------------------------------------------------------------------------
\* Statement texts (lines 135-153)
\* ------------------------------------------------------------------------

RoleQuery == <<"SELECT 1 FROM pg_roles WHERE rolname=$1">>

DatabaseQuery == <<"SELECT 1 FROM pg_database WHERE datname=$1">>

\* f" PASSWORD '{_escape_literal(password)}'" if password else ""
PasswordClause(password_) ==
  IF Truthy(password_)
  THEN <<" PASSWORD '">> \o _escape_literal(password_) \o <<"'">>
  ELSE <<>>

\* f"CREATE ROLE {role_ident} WITH LOGIN{password_clause}"
CreateRoleText(role_ident, password_) ==
  <<"CREATE ROLE ">> \o role_ident \o <<" WITH LOGIN">>
  \o PasswordClause(password_)

\* f"CREATE DATABASE {database_ident} OWNER {role_ident}"
CreateDatabaseText(database_ident, role_ident) ==
  <<"CREATE DATABASE ">> \o database_ident \o <<" OWNER ">> \o role_ident

IsCreateRole(text) == text # <<>> /\ Head(text) = "CREATE ROLE "

IsCreateDatabase(text) == text # <<>> /\ Head(text) = "CREATE DATABASE "

IsDDL(text) == IsCreateRole(text) \/ IsCreateDatabase(text)

\* ------------------------------------------------------------------------
\* The PostgreSQL server, as far as the statements above exercise it
\* ------------------------------------------------------------------------

LowerOf(c) ==
  IF \E i \in 1..26 : UpperLetters[i] = c
  THEN LowerLetters[CHOOSE i \in 1..26 : UpperLetters[i] = c]
  ELSE c

\* an unquoted identifier is folded to lower case by the server
Downcase(s) == [i \in 1..Len(s) |-> LowerOf(s[i])]

\* the longest prefix of s made of identifier characters
RECURSIVE LexIdent(_)
LexIdent(s) ==
  IF s = <<>> \/ Head(s) \notin IdentChar THEN <<>>
  ELSE <<Head(s)>> \o LexIdent(Tail(s))

Drop(s, n) == SubSeq(s, n + 1, Len(s))

\* s is the body of a quoted literal followed by the closing quote:
\* every quote inside the body is doubled
RECURSIVE IsLiteralTail(_)
IsLiteralTail(s) ==
  IF s = <<>> THEN FALSE
  ELSE IF Head(s) = "'"
       THEN IF Len(s) = 1 THEN TRUE
            ELSE s[2] = "'" /\ IsLiteralTail(Drop(s, 2))
       ELSE IsLiteralTail(Tail(s))

\* name created by a CREATE ROLE text, or None for a syntax error
ParseCreateRole(text) ==
  LET id   == LexIdent(Tail(text))
      rest == Drop(Tail(text), Len(id))
  IN  IF /\ id # <<>>
         /\ id[1] \in IdentStart
         /\ rest # <<>>
         /\ Head(rest) = " WITH LOGIN"
         /\ \/ Len(rest) = 1
            \/ /\ rest[2] = " PASSWORD '"
               /\ IsLiteralTail(Drop(rest, 2))
      THEN Downcase(id)
      ELSE None

\* <<database, owner>> of a CREATE DATABASE text, or None
ParseCreateDatabase(text) ==
  LET id    == LexIdent(Tail(text))
      rest  == Drop(Tail(text), Len(id))
      owner == LexIdent(Tail(rest))
  IN  IF /\ id # <<>>
         /\ id[1] \in IdentStart
         /\ rest # <<>>
         /\ Head(rest) = " OWNER "
         /\ owner # <<>>
         /\ owner[1] \in IdentStart
         /\ Len(rest) = 1 + Len(owner)
      THEN <<Downcase(id), Downcase(owner)>>
      ELSE None

DatNames_none(dbs) == {}

DatNames(dbs) == {d.datname : d \in dbs}

\* ------------------------------------------------------------------------
\* Exceptions
\* ------------------------------------------------------------------------

\* asyncpg.PostgresError and its subclasses
PostgresErrors ==
  {"InvalidAuthorizationSpecificationError", "InvalidCatalogNameError",
   "TooManyConnectionsError", "PostgresSyntaxError", "DuplicateObjectError",
   "DuplicateDatabaseError", "UndefinedObjectError",
   "InsufficientPrivilegeError"}

\* OSError and its subclasses
OSErrors == {"ConnectionRefusedError"}

\* except (InvalidAuthorizationSpecificationError, InvalidCatalogNameError,
\*         asyncpg.PostgresError, OSError)
ConnectCaught_narrow(e) ==
  e \in {"InvalidAuthorizationSpecificationError", "InvalidCatalogNameError"}

ConnectCaught(e) == e \in PostgresErrors \cup OSErrors

ProvisionCaught_none(e) == FALSE

\* except asyncpg.PostgresError
ProvisionCaught(e) == e \in PostgresErrors

\* what a connection attempt can raise
ConnectRaises ==
  {"InvalidAuthorizationSpecificationError", "InvalidCatalogNameError",
   "TooManyConnectionsError", "ConnectionRefusedError", "InterfaceError"}

NoMsg == [text |-> "", host |-> <<>>, port |-> 0, detail |-> ""]

NoResult == [kind |-> "none", type |-> "", msg |-> NoMsg, cause |-> ""]

Returned == [kind |-> "return", type |-> "", msg |-> NoMsg, cause |-> ""]

Raised(type, msg, cause) ==
  [kind |-> "raise", type |-> type, msg |-> msg, cause |-> cause]

ProvisioningError(text, detail, cause) ==
  Raised("DBProvisioningError",
         [text |-> text, host |-> <<>>, port |-> 0, detail |-> detail], cause)

\* ------------------------------------------------------------------------
\* Inputs: the database_url argument (as make_url parses it) and the
\* FINNEWS_DB_SUPER* environment
\* ------------------------------------------------------------------------

S_bob == <<"b","o","b">>

S_Bob == <<"B","o","b">>

S_rob_drop == <<"r",";","d">>

S_db == <<"d","b">>

S_Db == <<"D","b">>

S_d_b == <<"d",";","b">>

S_pw == <<"p","w">>

S_su == <<"s","u">>

S_sp == <<"s","p">>

S_sd == <<"s","d">>

S_host == <<"db.local">>

DriverAsyncpg == S_postgresql \o <<"+","a","s","y","n","c","p","g">>

Drivernames ==
  {S_postgresql, DriverAsyncpg, S_postgres,
   <<"m","y","s","q","l","+","p","y","m","y","s","q","l">>}

Url(d, u, p, db, h, po) ==
  [parses |-> TRUE, drivername |-> d, username |-> u, password |-> p,
   database |-> db, host |-> h, port |-> po]

\* a string make_url rejects with ArgumentError
BadUrl ==
  [parses |-> FALSE, drivername |-> <<>>, username |-> None,
   password |-> None, database |-> None, host |-> None, port |-> NonePort]

Env(u, p, d) == [superuser |-> u, superpass |-> p, superdb |-> d]

NoEnv == Env(None, None, None)

\* strings over {x, '} of length at most n
RECURSIVE PwdStrings(_)
PwdStrings(n) ==
  IF n = 0 THEN {<<>>}
  ELSE PwdStrings(n - 1)
       \cup {<<c>> \o w : c \in {"x", "'"},
                          w \in {v \in PwdStrings(n - 1) : Len(v) = n - 1}}

UrlPasswords == PwdStrings(MaxPwdLen) \cup {None, S_NONE_KEY}

ConfigInputs ==
  {<<BadUrl, NoEnv>>}
  \cup {<<Url(d, u, S_pw, S_db, S_host, 5433), NoEnv>> :
          d \in Drivernames, u \in {None, <<>>, S_bob}}

IdentifierInputs ==
  {<<Url(DriverAsyncpg, u, S_pw, db, S_host, 5433), NoEnv>> :
     u \in {S_bob, S_Bob, S_rob_drop, S_postgres},
     db \in {None, S_db, S_Db, S_d_b}}

PasswordCases ==
  {<<Url(S_postgresql, S_bob, p, S_postgres, S_host, 5433), NoEnv>> :
     p \in UrlPasswords}
  \cup
  {<<Url(S_postgresql, S_bob, p, S_postgres, S_host, 5433),
     Env(None, sp, None)>> :
     p \in {None, <<"x">>, S_NONE_KEY},
     sp \in {<<>>, S_sp, <<"x">>, S_NONE_KEY}}

EnvInputs ==
  {<<Url(S_postgresql, S_bob, S_pw, S_db, None, NonePort), NoEnv>>,
   <<Url(S_postgresql, S_bob, S_pw, S_db, S_host, 0), NoEnv>>}
  \cup
  {<<Url(S_postgresql, S_bob, S_pw, S_db, S_host, 5433), Env(su, None, None)>> :
     su \in {<<>>, S_su, S_postgres, S_bob}}
  \cup
  {<<Url(S_postgresql, S_bob, S_pw, S_db, S_host, 5433), Env(None, None, sd)>> :
     sd \in {<<>>, S_sd, S_db}}
  \cup
  {<<Url(S_postgresql, S_bob, S_pw, S_db, S_host, 5433), Env(S_su, None, S_sd)>>}

Inputs == ConfigInputs \cup IdentifierInputs \cup PasswordCases \cup EnvInputs

\* the server starts with the bootstrap superuser and database, and with
\* any of the objects the URL names, in exact or folded spelling
Db(name, owner) == [datname |-> name, datdba |-> owner]

BaseRoles == {S_postgres}

BaseDatabases == {Db(S_postgres, S_postgres)}

ExtraRoles(u) ==
  IF u.parses /\ Truthy(u.username)
  THEN {u.username, Downcase(u.username)} \ BaseRoles
  ELSE {}

ExtraDatabases(u) ==
  IF u.parses /\ Truthy(u.username)
  THEN {Or(u.database, u.username), Downcase(Or(u.database, u.username))}
       \ DatNames(BaseDatabases)
  ELSE {}

\* ------------------------------------------------------------------------
\* State
\* ------------------------------------------------------------------------

VARIABLES
  database_url,        \* the argument of every invocation
  environ,             \* os.environ, the three override variables
  pg_roles,            \* server: rolname of every role
  pg_database,         \* server: [datname, datdba] of every database
  calls,               \* invocations started so far
  pc,                  \* position of the running invocation
  role, password, database, host, port,
  user_candidates, password_candidates, database_candidates,
  ui, pi, di,          \* loop positions in the three candidate lists
  last_error,
  conn,                \* "none", "open" or "closed"
  superuser,
  exc,                 \* exception in flight while the finally block runs
  result,              \* how the invocation ended
  connect_calls,       \* arguments of every asyncpg.connect of this call
  connect_raised,      \* what the latest asyncpg.connect raised, or "ok"
  conn_id,             \* which asyncpg.connect call returned conn (0: none)
  statements,          \* every statement sent in this call: its text and
                       \* args, the connection it went over and how it
                       \* ended (value fetched, "ok", or exception raised)
  roles0, databases0,  \* the server when the invocation started
  prev,                \* how the previous invocation ended: kind and type
                       \* of its result, whether its CREATE ROLE succeeded
  other                \* the frame of a second caller suspended at an
                       \* await while this one runs (NoOther: none)

inputs == <<database_url, environ>>

server == <<pg_roles, pg_database>>

descriptor == <<role, password, database, host, port>>

candidates == <<user_candidates, password_candidates, database_candidates>>

cursor == <<ui, pi, di>>

history == <<roles0, databases0, prev>>

connects == <<connect_calls, connect_raised, conn_id>>

vars ==
  <<database_url, environ, pg_roles, pg_database, calls, pc,
    role, password, database, host, port,
    user_candidates, password_candidates, database_candidates,
    ui, pi, di, last_error, conn, superuser, exc, result,
    connect_calls, connect_raised, conn_id, statements, roles0, databases0,
    prev, other>>

\* there is a single caller
NoOther == [pc |-> "absent"]

\* the local state of the running invocation
Frame ==
  [calls |-> calls, pc |-> pc, role |-> role, password |-> password,
   database |-> database, host |-> host, port |-> port,
   user_candidates |-> user_candidates,
   password_candidates |-> password_candidates,
   database_candidates |-> database_candidates,
   ui |-> ui, pi |-> pi, di |-> di, last_error |-> last_error,
   conn |-> conn, superuser |-> superuser, exc |-> exc, result |-> result,
   connect_calls |-> connect_calls, connect_raised |-> connect_raised,
   conn_id |-> conn_id, statements |-> statements,
   roles0 |-> roles0, databases0 |-> databases0, prev |-> prev]

Init ==
  /\ \E i \in Inputs :
       /\ database_url = i[1]
       /\ environ = i[2]
       /\ \E rs \in SUBSET ExtraRoles(i[1]), ds \in SUBSET ExtraDatabases(i[1]) :
            /\ pg_roles = BaseRoles \cup rs
            /\ pg_database = BaseDatabases \cup {Db(d, S_postgres) : d \in ds}
  /\ calls = 0
  /\ pc = "idle"
  /\ role = None /\ password = None /\ database = None
  /\ host = None /\ port = NonePort
  /\ user_candidates = <<>> /\ password_candidates = <<>>
  /\ database_candidates = <<>>
  /\ ui = 1 /\ pi = 1 /\ di = 1
  /\ last_error = "None"
  /\ conn = "none"
  /\ superuser = None
  /\ exc = NoResult
  /\ result = NoResult
  /\ connect_calls = <<>>
  /\ connect_raised = "ok"
  /\ conn_id = 0
  /\ statements = <<>>
  /\ roles0 = pg_roles /\ databases0 = pg_database
  /\ prev = [kind |-> "none", type |-> "", role_created |-> FALSE]
  /\ other = NoOther

\* ------------------------------------------------------------------------
\* provision_role_and_database
\* ------------------------------------------------------------------------

\* what a catalog query or a DDL statement can raise besides the errors
\* the server state decides
QueryRaises == {"InsufficientPrivilegeError", "InterfaceError"}

Finish(r) ==
  /\ result' = r
  /\ pc' = "done"

\* lines 43-44: driver = url.drivername.split("+", 1)[0]; driver != "postgresql"
DriverSupported_prefix(drivername) ==
  SubSeq(drivername, 1, Len(S_postgres)) = S_postgres

DriverSupported(drivername) == SplitFirst(drivername, "+") = S_postgresql

\* lines 42-97: parse the URL, reject what cannot be provisioned, build
\* the candidate lists
Call ==
  /\ pc \in {"idle", "done"}
  /\ calls < MaxCalls
  /\ calls' = calls + 1
  /\ prev' = [kind |-> result.kind, type |-> result.type,
              role_created |-> \E i \in 1..Len(statements) :
                                 /\ IsCreateRole(statements[i].text)
                                 /\ statements[i].outcome = "ok"]
  /\ roles0' = pg_roles
  /\ databases0' = pg_database
  /\ connect_calls' = <<>>
  /\ connect_raised' = "ok"
  /\ conn_id' = 0
  /\ statements' = <<>>
  /\ conn' = "none"
  /\ superuser' = None
  /\ exc' = NoResult
  /\ last_error' = "None"
  /\ ui' = 1 /\ pi' = 1 /\ di' = 1
  /\ LET url == database_url IN
     IF ~url.parses
     THEN /\ Finish(Raised("ArgumentError", NoMsg, ""))
          /\ role' = None /\ password' = None /\ database' = None
          /\ host' = None /\ port' = NonePort
          /\ user_candidates' = <<>> /\ password_candidates' = <<>>
          /\ database_candidates' = <<>>
     ELSE IF ~DriverSupported(url.drivername)
     THEN /\ Finish(ProvisioningError(
                      "Automatic provisioning is only available for PostgreSQL URLs.",
                      "", ""))
          /\ role' = None /\ password' = None /\ database' = None
          /\ host' = None /\ port' = NonePort
          /\ user_candidates' = <<>> /\ password_candidates' = <<>>
          /\ database_candidates' = <<>>
     ELSE IF ~Truthy(url.username)
     THEN /\ Finish(ProvisioningError(
                      "DATABASE_URL must include username for auto provisioning.",
                      "", ""))
          /\ role' = url.username /\ password' = None /\ database' = None
          /\ host' = None /\ port' = NonePort
          /\ user_candidates' = <<>> /\ password_candidates' = <<>>
          /\ database_candidates' = <<>>
     ELSE /\ role' = url.username
          /\ password' = Or(url.password, <<>>)
          /\ database' = Or(url.database, url.username)
          /\ host' = Or(url.host, DefaultHost)
          /\ port' = PortOr(url.port, DefaultPort)
          /\ user_candidates' =
               BuildUserCandidates(environ.superuser, role')
          /\ password_candidates' =
               BuildPasswordCandidates(environ.superpass, password')
          /\ database_candidates' =
               BuildDatabaseCandidates(environ.superdb, database')
          /\ result' = NoResult
          /\ pc' = "connect"
  /\ UNCHANGED <<inputs, other, server>>

\* password=(pwd_candidate or None)
ConnectPassword(pwd_candidate) == Or(pwd_candidate, None)

NextCursor_swapped(u, p, d) ==
  IF p < Len(password_candidates) THEN <<u, p + 1, d>>
  ELSE IF d < Len(database_candidates) THEN <<u, 1, d + 1>>
  ELSE <<u + 1, 1, 1>>

NextCursor_skips(u, p, d) ==
  IF d < Len(database_candidates) THEN <<u, p, d + 1>>
  ELSE <<u + 1, 1, 1>>

\* the loop positions after a soft failure at <<u, p, d>>; u beyond the
\* user list when the three loops are over
NextCursor(u, p, d) ==
  IF d < Len(database_candidates) THEN <<u, p, d + 1>>
  ELSE IF p < Len(password_candidates) THEN <<u, p + 1, 1>>
  ELSE <<u + 1, 1, 1>>

\* lines 131-132, after the cascade: "" when both identifiers pass, else
\* the kind of the first one that does not
InvalidIdentifierKind ==
  IF ~_ensure_identifier(role) THEN "role"
  ELSE IF ~_ensure_identifier(database) THEN "database"
  ELSE ""

\* lines 110-116: the asyncpg.connect call of the current loop positions;
\* connect_calls keeps its arguments, the password candidate they were made
\* from and how the call ended: "ok", or the family of the exception raised
ExceptionFamily(e) ==
  IF e = "ok" THEN "ok"
  ELSE IF e \in PostgresErrors \cup OSErrors THEN "PostgresError/OSError"
  ELSE "Exception"

Attempt(outcome) ==
  /\ connect_raised' = outcome
  /\ connect_calls' = Append(connect_calls,
       [user |-> user_candidates[ui],
        password |-> ConnectPassword(password_candidates[pi]),
        host |-> host, port |-> port,
        database |-> database_candidates[di],
        pwd_candidate |-> password_candidates[pi],
        outcome |-> ExceptionFamily(outcome)])

\* lines 99-132: one connection attempt, and what follows it without
\* another await
Connect ==
  /\ pc = "connect"
  /\ LET user_candidate == user_candidates[ui]
         pwd_candidate  == password_candidates[pi]
         db_candidate   == database_candidates[di]
         nxt            == NextCursor(ui, pi, di)
     IN
     /\ \/ \* the connection is established
           /\ Attempt("ok")
           /\ conn' = "open"
           /\ conn_id' = Len(connect_calls) + 1
           /\ superuser' = user_candidate
           /\ UNCHANGED <<cursor, last_error>>
           /\ IF InvalidIdentifierKind # ""
              THEN Finish(ProvisioningError("Invalid identifier",
                                            InvalidIdentifierKind, ""))
              ELSE /\ pc' = "role_check"
                   /\ UNCHANGED result
        \/ \* soft failure: remember it and go on
           \E e \in ConnectRaises :
             /\ ConnectCaught(e)
             /\ Attempt(e)
             /\ last_error' = e
             /\ ui' = nxt[1] /\ pi' = nxt[2] /\ di' = nxt[3]
             /\ UNCHANGED <<conn, conn_id, superuser>>
             /\ IF nxt[1] > Len(user_candidates)
                THEN Finish(Raised("DBProvisioningError",
                       [text |-> "Failed to connect with any provisioning user on",
                        host |-> host, port |-> port, detail |-> e], ""))
                ELSE UNCHANGED <<pc, result>>
        \/ \* any other exception leaves the function
           \E e \in ConnectRaises :
             /\ ~ConnectCaught(e)
             /\ Attempt(e)
             /\ Finish(Raised(e, NoMsg, ""))
             /\ UNCHANGED <<cursor, last_error, conn, conn_id, superuser>>
  /\ UNCHANGED <<inputs, other, server, calls, descriptor, candidates, exc,
                 statements, history>>

\* an exception raised inside the try block: the except clause of line 157
\* wraps a PostgresError, the finally block runs next
Raise_continues(e) ==
  /\ exc' = exc
  /\ pc' = "db_check"

Raise(e) ==
  /\ exc' = IF ProvisionCaught(e)
            THEN ProvisioningError(
                   "Failed to provision database/role automatically", e, e)
            ELSE Raised(e, NoMsg, "")
  /\ pc' = "close"

\* conn.fetchval(text, *args) / conn.execute(text) and how it ended
Send(text, args, outcome) ==
  statements' = Append(statements,
    [text |-> text, args |-> args, conn |-> conn_id, outcome |-> outcome])

\* lines 135-138
RoleCheck ==
  /\ pc = "role_check"
  /\ \/ /\ Send(RoleQuery, <<role>>,
                IF role \in pg_roles THEN "1" ELSE "None")
        /\ pc' = IF role \in pg_roles THEN "db_check" ELSE "create_role"
        /\ UNCHANGED exc
     \/ \E e \in QueryRaises : Send(RoleQuery, <<role>>, e) /\ Raise(e)
  /\ UNCHANGED <<inputs, other, server, calls, descriptor, candidates, cursor,
                 last_error, conn, superuser, result, connects, history>>

\* lines 139-145
CreateRole ==
  /\ pc = "create_role"
  /\ LET text == CreateRoleText(role, password)
         name == ParseCreateRole(text)
     IN
     IF name = None
     THEN /\ Send(text, <<>>, "PostgresSyntaxError")
          /\ Raise("PostgresSyntaxError")
          /\ UNCHANGED pg_roles
     ELSE IF name \in pg_roles
     THEN /\ Send(text, <<>>, "DuplicateObjectError")
          /\ Raise("DuplicateObjectError")
          /\ UNCHANGED pg_roles
     ELSE \/ /\ Send(text, <<>>, "ok")
             /\ pg_roles' = pg_roles \cup {name}
             /\ pc' = "db_check"
             /\ UNCHANGED exc
          \/ /\ \E e \in QueryRaises : Send(text, <<>>, e) /\ Raise(e)
             /\ UNCHANGED pg_roles
  /\ UNCHANGED <<inputs, other, pg_database, calls, descriptor, candidates, cursor,
                 last_error, conn, superuser, result, connects, history>>

\* lines 147-150
DatabaseCheck ==
  /\ pc = "db_check"
  /\ \/ /\ Send(DatabaseQuery, <<database>>,
                IF database \in DatNames(pg_database) THEN "1" ELSE "None")
        /\ IF database \in DatNames(pg_database)
           THEN pc' = "close"
           ELSE pc' = "create_db"
        /\ UNCHANGED exc
     \/ \E e \in QueryRaises : Send(DatabaseQuery, <<database>>, e) /\ Raise(e)
  /\ UNCHANGED <<inputs, other, server, calls, descriptor, candidates, cursor,
                 last_error, conn, superuser, result, connects, history>>

\* lines 151-156
CreateDatabase ==
  /\ pc = "create_db"
  /\ LET text   == CreateDatabaseText(database, role)
         parsed == ParseCreateDatabase(text)
     IN
     IF parsed = None
     THEN /\ Send(text, <<>>, "PostgresSyntaxError")
          /\ Raise("PostgresSyntaxError")
          /\ UNCHANGED pg_database
     ELSE IF parsed[2] \notin pg_roles
     THEN /\ Send(text, <<>>, "UndefinedObjectError")
          /\ Raise("UndefinedObjectError")
          /\ UNCHANGED pg_database
     ELSE IF parsed[1] \in DatNames(pg_database)
     THEN /\ Send(text, <<>>, "DuplicateDatabaseError")
          /\ Raise("DuplicateDatabaseError")
          /\ UNCHANGED pg_database
     ELSE \/ /\ Send(text, <<>>, "ok")
             /\ pg_database' = pg_database \cup {Db(parsed[1], parsed[2])}
             /\ pc' = "close"
             /\ UNCHANGED exc
          \/ /\ \E e \in QueryRaises : Send(text, <<>>, e) /\ Raise(e)
             /\ UNCHANGED pg_database
  /\ UNCHANGED <<inputs, other, pg_roles, calls, descriptor, candidates, cursor,
                 last_error, conn, superuser, result, connects, history>>

\* what conn.close() can raise; the connection is terminated all the same
CloseRaises == {"InterfaceError"}

\* lines 161-162: the finally block, then the return or the re-raise; an
\* exception of conn.close() replaces the one in flight
Close ==
  /\ pc = "close"
  /\ conn' = "closed"
  /\ \/ Finish(IF exc = NoResult THEN Returned ELSE exc)
     \/ \E e \in CloseRaises : Finish(Raised(e, NoMsg, ""))
  /\ UNCHANGED <<inputs, other, server, calls, descriptor, candidates, cursor,
                 last_error, superuser, exc, connects, statements,
                 history>>

Next ==
  \/ Call
  \/ Connect
  \/ RoleCheck
  \/ CreateRole
  \/ DatabaseCheck
  \/ CreateDatabase
  \/ Close

Spec == Init /\ [][Next]_vars

\* ------------------------------------------------------------------------
\* Two callers provisioning the same target on the same server
\* ------------------------------------------------------------------------

\* both callers are given the same URL
ConcurrentInputs ==
  {<<Url(S_postgresql, S_bob, S_pw, S_db, S_host, 5433), NoEnv>>}

\* each of the two callers is about to make one invocation
InitConcurrent ==
  /\ \E i \in ConcurrentInputs :
       /\ database_url = i[1]
       /\ environ = i[2]
       /\ \E rs \in SUBSET ExtraRoles(i[1]), ds \in SUBSET ExtraDatabases(i[1]) :
            /\ pg_roles = BaseRoles \cup rs
            /\ pg_database = BaseDatabases \cup {Db(d, S_postgres) : d \in ds}
  /\ calls = MaxCalls - 1
  /\ pc = "idle"
  /\ role = None /\ password = None /\ database = None
  /\ host = None /\ port = NonePort
  /\ user_candidates = <<>> /\ password_candidates = <<>>
  /\ database_candidates = <<>>
  /\ ui = 1 /\ pi = 1 /\ di = 1
  /\ last_error = "None"
  /\ conn = "none"
  /\ superuser = None
  /\ exc = NoResult
  /\ result = NoResult
  /\ connect_calls = <<>>
  /\ connect_raised = "ok"
  /\ conn_id = 0
  /\ statements = <<>>
  /\ roles0 = pg_roles /\ databases0 = pg_database
  /\ prev = [kind |-> "none", type |-> "", role_created |-> FALSE]
  /\ other = Frame

\* the running invocation is suspended at an await (or has not started,
\* or is over) and the event loop resumes the other caller; the server is
\* shared, everything else belongs to the invocation
Yield ==
  /\ other # NoOther
  /\ other' = Frame
  /\ calls' = other.calls
  /\ pc' = other.pc
  /\ role' = other.role
  /\ password' = other.password
  /\ database' = other.database
  /\ host' = other.host
  /\ port' = other.port
  /\ user_candidates' = other.user_candidates
  /\ password_candidates' = other.password_candidates
  /\ database_candidates' = other.database_candidates
  /\ ui' = other.ui /\ pi' = other.pi /\ di' = other.di
  /\ last_error' = other.last_error
  /\ conn' = other.conn
  /\ superuser' = other.superuser
  /\ exc' = other.exc
  /\ result' = other.result
  /\ connect_calls' = other.connect_calls
  /\ connect_raised' = other.connect_raised
  /\ conn_id' = other.conn_id
  /\ statements' = other.statements
  /\ roles0' = other.roles0
  /\ databases0' = other.databases0
  /\ prev' = other.prev
  /\ UNCHANGED <<inputs, server>>

\* lines 99-132 on a server that accepts the first candidate triple, or
\* whose answer is an exception the loop does not catch: the cascade over
\* the other triples is the same for a caller alone (Spec)
ConnectDirect == Connect /\ ~ConnectCaught(connect_raised')

NextConcurrent ==
  \/ Call
  \/ ConnectDirect
  \/ RoleCheck
  \/ CreateRole
  \/ DatabaseCheck
  \/ CreateDatabase
  \/ Close
  \/ Yield

SpecConcurrent == InitConcurrent /\ [][NextConcurrent]_vars

TypeOK ==
  /\ pc \in {"idle", "connect", "role_check", "create_role", "db_check",
             "create_db", "close", "done"}
  /\ conn \in {"none", "open", "closed"}
  /\ calls \in 0..MaxCalls
  /\ result.kind \in {"none", "return", "raise"}

\* ------------------------------------------------------------------------
\* Vocabulary of the properties
\* ------------------------------------------------------------------------

Finished == pc = "done" /\ calls >= 1

ReturnedNormally == Finished /\ result.kind = "return"

RaisedError(type) == Finished /\ result.kind = "raise" /\ result.type = type

DDLSent == {i \in 1..Len(statements) : IsDDL(statements[i].text)}

CreateRoleSent == {i \in 1..Len(statements) : IsCreateRole(statements[i].text)}

CreateDatabaseSent ==
  {i \in 1..Len(statements) : IsCreateDatabase(statements[i].text)}

ServerUnchanged == pg_roles = roles0 /\ pg_database = databases0

\* the role and database the URL asks for
TargetRole == database_url.username

TargetDatabase ==
  IF Truthy(database_url.database) THEN database_url.database
  ELSE database_url.username

\* value matches ^[A-Za-z_][A-Za-z0-9_]*$
IsIdentifier(value) ==
  /\ value # None
  /\ Len(value) >= 1
  /\ value[1] \in IdentStart
  /\ \A i \in 2..Len(value) : value[i] \in IdentChar

\* the scheme before "+" is postgresql
PostgresScheme(d) ==
  /\ Len(d) >= Len(S_postgresql)
  /\ SubSeq(d, 1, Len(S_postgresql)) = S_postgresql
  /\ (Len(d) > Len(S_postgresql) => d[Len(S_postgresql) + 1] = "+")

ConfigRejected ==
  /\ database_url.parses
  /\ \/ ~PostgresScheme(database_url.drivername)
     \/ database_url.username \in {None, <<>>}

SoftFailures ==
  {"InvalidAuthorizationSpecificationError", "InvalidCatalogNameError",
   "TooManyConnectionsError", "ConnectionRefusedError"}

\* ------------------------------------------------------------------------
\* C1: once an administrative connection has been opened, it is closed
\* before the call returns or raises, on every exit path.
\* ------------------------------------------------------------------------
C1_ConnectionClosedOnExit == Finished => conn # "open"

\* ------------------------------------------------------------------------
\* C2 (as stated): an invocation returns normally or raises
\* DBProvisioningError; no other error kind reaches the caller.
\* ------------------------------------------------------------------------
C2_OnlyProvisioningError ==
  Finished /\ result.kind = "raise" => result.type = "DBProvisioningError"

\* C2 (amended): an exception other than DBProvisioningError reaches the
\* caller only as the URL parse error of make_url (before any connection
\* attempt), as an exception of a connection attempt that is neither a
\* PostgresError nor an OSError (before any statement), or as an exception of
\* a catalog query, of a CREATE statement or of closing the connection that
\* is not a PostgresError; a DBProvisioningError that has a cause was raised
\* after a statement was sent and its cause is a PostgresError.
C2_EscapesOnlyUnhandled ==
  /\ Finished /\ result.kind = "raise" /\ result.type # "DBProvisioningError"
       => \/ /\ result.type = "ArgumentError"
             /\ ~database_url.parses
             /\ connect_calls = <<>>
          \/ /\ connect_calls # <<>>
             /\ statements = <<>>
             /\ connect_calls[Len(connect_calls)].outcome = "Exception"
             /\ result.type \notin PostgresErrors \cup OSErrors
          \/ /\ statements # <<>>
             /\ result.type \notin PostgresErrors
  /\ RaisedError("DBProvisioningError") /\ result.cause # ""
       => result.cause \in PostgresErrors /\ statements # <<>>

C2_Witness ==
  /\ RaisedError("DBProvisioningError")
  /\ result.cause = "InsufficientPrivilegeError"
  /\ conn = "closed"

\* ------------------------------------------------------------------------
\* C3: whenever the call returns normally, the target role and the target
\* database both exist on the server.
\* ------------------------------------------------------------------------
C3_ReturnImpliesBothExist ==
  ReturnedNormally =>
    /\ TargetRole \in pg_roles
    /\ TargetDatabase \in DatNames(pg_database)

\* ------------------------------------------------------------------------
\* C4: if the target role and database both exist when the administrative
\* connection is obtained, no CREATE statement is issued and the server's
\* roles and databases are unchanged; a second invocation right after a
\* successful one is a no-op.
\* ------------------------------------------------------------------------
C4_Idempotent ==
  /\ /\ calls >= 1
     /\ conn # "none"
     /\ TargetRole \in roles0
     /\ TargetDatabase \in DatNames(databases0)
     => DDLSent = {} /\ ServerUnchanged
  /\ calls >= 2 /\ prev.kind = "return"
     => DDLSent = {} /\ ServerUnchanged

\* ------------------------------------------------------------------------
\* C5 (as stated): a URL that passes the driver and username checks and
\* whose role or database name is not an identifier makes the call fail with the identifier validation error, no CREATE
\* statement is sent, and every identifier in a DDL text has passed
\* _ensure_identifier.
\* ------------------------------------------------------------------------
BadTarget ==
  /\ database_url.parses
  /\ ~ConfigRejected
  /\ ~(IsIdentifier(TargetRole) /\ IsIdentifier(TargetDatabase))

IdentifierError ==
  /\ RaisedError("DBProvisioningError")
  /\ result.msg.text = "Invalid identifier"

DDLIdentifiersValid ==
  \A i \in DDLSent :
    /\ IsIdentifier(role)
    /\ IsCreateRole(statements[i].text) =>
         /\ Len(statements[i].text) >= 2 + Len(role)
         /\ SubSeq(statements[i].text, 2, 1 + Len(role)) = role
         /\ statements[i].text[2 + Len(role)] = " WITH LOGIN"
    /\ IsCreateDatabase(statements[i].text) =>
         /\ IsIdentifier(database)
         /\ statements[i].text =
              <<"CREATE DATABASE ">> \o database \o <<" OWNER ">> \o role

C5_BadIdentifierFailsValidation ==
  /\ Finished /\ BadTarget => IdentifierError /\ DDLSent = {}
  /\ DDLIdentifiersValid

\* C5 (amended): for such a URL the call never returns normally and never
\* sends a CREATE statement; it fails with the identifier validation error
\* exactly when an administrative connection was obtained, and otherwise has
\* already failed with the exhaustion error or the exception of a connection
\* attempt; every identifier in a DDL text has
\* passed _ensure_identifier.
C5_BadIdentifierNeverReachesDDL ==
  /\ calls >= 1 /\ BadTarget
       => /\ DDLSent = {}
          /\ result.kind # "return"
          /\ pc \in {"connect", "done"}
          /\ (Finished => (IdentifierError <=> conn # "none"))
  /\ DDLIdentifiersValid

C5_Witness ==
  /\ IdentifierError
  /\ BadTarget
  /\ role = S_rob_drop
  /\ connect_calls # <<>>
  /\ statements = <<>>

\* ------------------------------------------------------------------------
\* C6: a URL whose driver scheme is not postgresql, or that has no
\* username, fails with DBProvisioningError before any connection attempt.
\* ------------------------------------------------------------------------
C6_ConfigErrorBeforeConnect ==
  calls >= 1 /\ ConfigRejected
    => /\ RaisedError("DBProvisioningError")
       /\ connect_calls = <<>>
       /\ conn = "none"
       /\ statements = <<>>

C6_Witness ==
  /\ RaisedError("DBProvisioningError")
  /\ database_url.drivername = S_postgres
  /\ database_url.username = S_bob
  /\ connect_calls = <<>>

\* ------------------------------------------------------------------------
\* C7: when every connection attempt ends in a soft failure, every triple
\* of the candidate product has been attempted exactly once, no catalog
\* query or DDL is issued, and the call fails with DBProvisioningError whose
\* message carries the host, the port and the error of the last attempt.
\* ------------------------------------------------------------------------
AllAttemptsSoft ==
  /\ Finished
  /\ connect_calls # <<>>
  /\ \A i \in 1..Len(connect_calls) :
       connect_calls[i].outcome = "PostgresError/OSError"

Attempts(u, p, d) ==
  {i \in 1..Len(connect_calls) :
     /\ connect_calls[i].user = u
     /\ connect_calls[i].pwd_candidate = p
     /\ connect_calls[i].database = d}

C7_ExhaustionTriesEveryTripleOnce ==
  AllAttemptsSoft =>
    /\ Len(connect_calls) =
         Len(user_candidates) * Len(password_candidates)
           * Len(database_candidates)
    /\ \A u \in Range(user_candidates), p \in Range(password_candidates),
          d \in Range(database_candidates) :
         Cardinality(Attempts(u, p, d)) = 1
    /\ statements = <<>>
    /\ conn = "none"
    /\ RaisedError("DBProvisioningError")
    /\ result.msg.host =
         (IF database_url.host \in {None, <<>>} THEN DefaultHost
          ELSE database_url.host)
    /\ result.msg.port =
         (IF database_url.port \in {NonePort, 0} THEN DefaultPort
          ELSE database_url.port)
    /\ result.msg.detail = connect_raised
    /\ connect_raised \in SoftFailures

C7_Witness ==
  /\ AllAttemptsSoft
  /\ Len(connect_calls) = 12
  /\ database_url.host = None
  /\ result.msg.host = DefaultHost
  /\ result.msg.port = DefaultPort
  /\ result.msg.detail = "InvalidCatalogNameError"

\* ------------------------------------------------------------------------
\* C8: each candidate list contains every distinct value of its input
\* sequence exactly once, in first-seen order; for passwords None and ""
\* are distinct values and no distinct password value is dropped.
\* ------------------------------------------------------------------------
FirstIndex(xs, v) ==
  CHOOSE i \in 1..Len(xs) : xs[i] = v /\ \A j \in 1..(i - 1) : xs[j] # v

DistinctFirstSeen(out, xs) ==
  /\ \A i, j \in 1..Len(out) : i # j => out[i] # out[j]
  /\ Range(out) = Range(xs)
  /\ \A i, j \in 1..Len(out) :
       i < j => FirstIndex(xs, out[i]) < FirstIndex(xs, out[j])

C8_CandidatesKeepEveryValue ==
  pc \notin {"idle"} /\ user_candidates # <<>> =>
    /\ DistinctFirstSeen(user_candidates,
                         UserInputs(environ.superuser, role))
    /\ DistinctFirstSeen(password_candidates,
                         PasswordInputs(environ.superpass, password))
    /\ DistinctFirstSeen(database_candidates,
                         DatabaseInputs(environ.superdb, database))

\* ------------------------------------------------------------------------
\* C9: when the role is absent the one role statement issued is exactly
\* CREATE ROLE <role> WITH LOGIN, followed by PASSWORD '<literal>' iff the
\* URL carried a non-empty password, the literal being the password with
\* every single quote doubled and nothing else changed; when the database
\* already exists no other DDL is issued.
\* ------------------------------------------------------------------------
QuotesBefore(pw, n) == Cardinality({i \in 1..n : pw[i] = "'"})

QuoteDoubled(lit, pw) ==
  /\ Len(lit) = Len(pw) + QuotesBefore(pw, Len(pw))
  /\ \A i \in 1..Len(pw) :
       LET k == i + QuotesBefore(pw, i - 1) IN
         /\ lit[k] = pw[i]
         /\ pw[i] = "'" => lit[k + 1] = "'"

ExpectedCreateRole(text) ==
  LET pw == database_url.password
      n  == Len(TargetRole)
  IN  /\ Len(text) >= n + 2
      /\ text[1] = "CREATE ROLE "
      /\ SubSeq(text, 2, n + 1) = TargetRole
      /\ text[n + 2] = " WITH LOGIN"
      /\ IF pw \notin {None, <<>>}
         THEN /\ Len(text) >= n + 4
              /\ text[n + 3] = " PASSWORD '"
              /\ text[Len(text)] = "'"
              /\ QuoteDoubled(SubSeq(text, n + 4, Len(text) - 1), pw)
         ELSE Len(text) = n + 2

C9_CreateRoleText ==
  /\ Cardinality(CreateRoleSent) <= 1
  /\ \A i \in CreateRoleSent :
       /\ TargetRole \notin roles0
       /\ ExpectedCreateRole(statements[i].text)
  /\ /\ calls >= 1
     /\ TargetRole \notin roles0
     /\ pc \in {"db_check", "create_db"} \/ ReturnedNormally
     => Cardinality(CreateRoleSent) = 1
  /\ calls >= 1 /\ TargetDatabase \in DatNames(databases0)
     => CreateDatabaseSent = {}

C9_Witness ==
  /\ ReturnedNormally
  /\ database_url.password = <<"'", "x">>
  /\ CreateRoleSent # {}
  /\ TargetDatabase \in DatNames(databases0)
  /\ Cardinality(DDLSent) = 1

\* ------------------------------------------------------------------------
\* C10: one invocation issues at most one CREATE ROLE and at most one
\* CREATE DATABASE, they name only the target role and database, and no
\* other role or database of the server is created, altered or removed.
\* ------------------------------------------------------------------------
C10_OnlyTargetsCreated ==
  /\ Cardinality(CreateRoleSent) <= 1
  /\ Cardinality(CreateDatabaseSent) <= 1
  /\ roles0 \subseteq pg_roles
  /\ pg_roles \subseteq roles0 \cup {TargetRole}
  /\ databases0 \subseteq pg_database
  /\ \A d \in pg_database \ databases0 : d.datname = TargetDatabase

\* ------------------------------------------------------------------------
\* C11: an override variable that is set (FINNEWS_DB_SUPERUSER or
\* FINNEWS_DB_SUPERDB to a non-empty value, FINNEWS_DB_SUPERPASS to any
\* value, the empty string included) is the first element of its candidate
\* list, and the first connection attempt of the call uses the override
\* user, the override password and the override database.
\* ------------------------------------------------------------------------
C11_OverridesTriedFirst ==
  calls >= 1 /\ user_candidates # <<>> =>
    /\ environ.superuser \notin {None, <<>>} =>
         /\ user_candidates[1] = environ.superuser
         /\ connect_calls # <<>> => connect_calls[1].user = environ.superuser
    /\ environ.superpass # None =>
         /\ password_candidates[1] = environ.superpass
         /\ connect_calls # <<>> =>
              connect_calls[1].password = environ.superpass
    /\ environ.superdb \notin {None, <<>>} =>
         /\ database_candidates[1] = environ.superdb
         /\ connect_calls # <<>> =>
              connect_calls[1].database = environ.superdb

\* ------------------------------------------------------------------------
\* C12: connection attempts are made in nested priority order (users
\* outermost, then passwords, then databases) and stop at the first
\* success: no connect call follows a successful one, and every catalog
\* query and DDL statement goes over the connection that succeeded.
\* ------------------------------------------------------------------------
\* the k-th triple (k from 0) of the lexicographic order over the lists
LexUser(k) ==
  user_candidates[
    (k \div (Len(password_candidates) * Len(database_candidates))) + 1]

LexPassword(k) ==
  password_candidates[
    ((k \div Len(database_candidates)) % Len(password_candidates)) + 1]

LexDatabase(k) ==
  database_candidates[(k % Len(database_candidates)) + 1]

C12_NestedOrderStopsAtSuccess ==
  LET n == Len(connect_calls) IN
  /\ n <= Len(user_candidates) * Len(password_candidates)
            * Len(database_candidates)
  /\ \A i \in 1..n :
       /\ connect_calls[i].user = LexUser(i - 1)
       /\ connect_calls[i].pwd_candidate = LexPassword(i - 1)
       /\ connect_calls[i].database = LexDatabase(i - 1)
       /\ i < n => connect_calls[i].outcome # "ok"
  /\ conn # "none" <=> (n >= 1 /\ connect_calls[n].outcome = "ok")
  /\ \A j \in 1..Len(statements) :
       /\ n >= 1
       /\ connect_calls[n].outcome = "ok"
       /\ statements[j].conn = n

C12_Witness ==
  /\ ReturnedNormally
  /\ Len(connect_calls) = 6
  /\ connect_calls[6].outcome = "ok"
  /\ connect_calls[6].user # connect_calls[1].user
  /\ Len(statements) = 4
  /\ statements[4].conn = 6

\* ------------------------------------------------------------------------
\* C13: a connection attempt that fails with an authorization error, a
\* database-does-not-exist error, a generic PostgreSQL error or an OS-level
\* error is recorded as last_error and the cascade goes on with the next
\* candidate triple (or ends with the exhaustion error after the last
\* one); an attempt that fails with any other exception ends the call at
\* once with that exception, last_error untouched, no further attempt.
\* ------------------------------------------------------------------------
\* position of a cursor in the lexicographic order of the triples
TripleIndex(u, p, d) ==
  (u - 1) * Len(password_candidates) * Len(database_candidates)
    + (p - 1) * Len(database_candidates) + (d - 1)

AttemptFailed ==
  /\ pc = "connect"
  /\ Len(connect_calls') = Len(connect_calls) + 1
  /\ connect_raised' # "ok"

C13_SoftFailureContinues ==
  [][AttemptFailed =>
       IF connect_raised' \in SoftFailures
       THEN /\ last_error' = connect_raised'
            /\ conn' = "none"
            /\ IF Len(connect_calls') <
                    Len(user_candidates) * Len(password_candidates)
                      * Len(database_candidates)
               THEN /\ pc' = "connect"
                    /\ result' = result
                    /\ TripleIndex(ui', pi', di') =
                         TripleIndex(ui, pi, di) + 1
                    /\ pi' \in 1..Len(password_candidates)
                    /\ di' \in 1..Len(database_candidates)
               ELSE /\ pc' = "done"
                    /\ result'.kind = "raise"
                    /\ result'.type = "DBProvisioningError"
                    /\ result'.msg.detail = connect_raised'
       ELSE /\ pc' = "done"
            /\ result'.kind = "raise"
            /\ result'.type = connect_raised'
            /\ last_error' = last_error
            /\ cursor' = cursor
            /\ conn' = "none"]_vars

\* every kind of soft failure has been recorded and the cascade is still
\* running; a fatal one ended the previous invocation
C13_Witness ==
  /\ pc = "connect"
  /\ Len(connect_calls) >= 2
  /\ connect_raised = "TooManyConnectionsError"
  /\ last_error = connect_raised
  /\ TripleIndex(ui, pi, di) = Len(connect_calls)
  /\ prev.kind = "raise"
  /\ prev.type = "InterfaceError"

\* ------------------------------------------------------------------------
\* C16: the empty-string password candidate and the None candidate stay
\* distinct up to the connection attempt: within one invocation no two
\* connect calls carry the same (user, password, database) arguments, the
\* "" candidate being sent as an empty password and the None candidate as
\* no password.
\* ------------------------------------------------------------------------
C16_EmptyAndNoneStayDistinct ==
  /\ \A i \in 1..Len(connect_calls) :
       connect_calls[i].password = connect_calls[i].pwd_candidate
  /\ \A i, j \in 1..Len(connect_calls) :
       /\ connect_calls[i].user = connect_calls[j].user
       /\ connect_calls[i].password = connect_calls[j].password
       /\ connect_calls[i].database = connect_calls[j].database
       => i = j

\* ------------------------------------------------------------------------
\* C17: within one invocation the steps on the administrative connection
\* are strictly ordered: identifier validation, role existence check,
\* optional CREATE ROLE, database existence check, optional CREATE
\* DATABASE; CREATE DATABASE <database> OWNER <role> is issued only after
\* the role was observed to exist or CREATE ROLE succeeded in the same
\* call, and never after a failed CREATE ROLE.
\* ------------------------------------------------------------------------
RoleSeenOrCreated(i) ==
  \E j \in 1..(i - 1) :
    \/ statements[j].text = RoleQuery /\ statements[j].outcome = "1"
    \/ IsCreateRole(statements[j].text) /\ statements[j].outcome = "ok"

C17_StepsStrictlyOrdered ==
  /\ statements # <<>> => IsIdentifier(role) /\ IsIdentifier(database)
  /\ Len(statements) <= 4
  /\ \A i \in 1..Len(statements) :
       LET st == statements[i] IN
       /\ \/ st.text = RoleQuery
          \/ IsCreateRole(st.text)
          \/ st.text = DatabaseQuery
          \/ IsCreateDatabase(st.text)
       /\ st.text = RoleQuery <=> i = 1
       /\ st.text = RoleQuery => st.args = <<role>>
       /\ IsCreateRole(st.text) =>
            /\ i = 2
            /\ statements[1].outcome = "None"
       /\ st.text = DatabaseQuery =>
            /\ st.args = <<database>>
            /\ i > 1
            /\ \/ /\ statements[i - 1].text = RoleQuery
                  /\ statements[i - 1].outcome = "1"
               \/ /\ IsCreateRole(statements[i - 1].text)
                  /\ statements[i - 1].outcome = "ok"
       /\ IsCreateDatabase(st.text) =>
            /\ st.text = CreateDatabaseText(database, role)
            /\ i > 1
            /\ statements[i - 1].text = DatabaseQuery
            /\ statements[i - 1].outcome = "None"
            /\ RoleSeenOrCreated(i)
            /\ \A j \in 1..(i - 1) :
                 IsCreateRole(statements[j].text) =>
                   statements[j].outcome = "ok"
       /\ i < Len(statements) => st.outcome \in {"1", "None", "ok"}

C17_Witness ==
  /\ ReturnedNormally
  /\ Len(statements) = 4
  /\ IsCreateRole(statements[2].text)
  /\ statements[2].outcome = "ok"
  /\ IsCreateDatabase(statements[4].text)
  /\ statements[4].outcome = "ok"
  /\ role # database

\* ------------------------------------------------------------------------
\* C14: if CREATE ROLE succeeds and the database existence check or CREATE
\* DATABASE that follows fails with a database error, the call raises
\* DBProvisioningError with that error as cause (unless closing the
\* connection raises in its turn), the created role is not removed, and
\* the next invocation with the same URL sends no CREATE ROLE: the only
\* CREATE statement it can send is CREATE DATABASE.
\* ------------------------------------------------------------------------
RoleCreatedThenDatabaseError ==
  /\ Len(statements) >= 3
  /\ IsCreateRole(statements[2].text)
  /\ statements[2].outcome = "ok"
  /\ statements[Len(statements)].outcome \in PostgresErrors

C14_RoleKeptAndRecovered ==
  /\ Finished /\ RoleCreatedThenDatabaseError =>
       /\ result = exc =>
            /\ result.kind = "raise"
            /\ result.type = "DBProvisioningError"
            /\ result.cause = statements[Len(statements)].outcome
       /\ ParseCreateRole(statements[2].text) \in pg_roles
       /\ roles0 \subseteq pg_roles
  /\ /\ calls >= 2
     /\ prev.role_created
     /\ prev.kind = "raise"
     /\ prev.type = "DBProvisioningError"
     => /\ CreateRoleSent = {}
        /\ \A i \in DDLSent :
             statements[i].text = CreateDatabaseText(database, role)

\* ------------------------------------------------------------------------
\* C15: two invocations running concurrently for the same target are not
\* coordinated: the existence check and the CREATE of each are separate
\* steps, so both can see the role (or the database) absent and both send
\* the CREATE; the later one gets an "already exists" error and fails with
\* DBProvisioningError although the object exists. In no interleaving is
\* an object created twice on the server.
\* ------------------------------------------------------------------------
RoleCreations(f) ==
  {i \in 1..Len(f.statements) :
     /\ IsCreateRole(f.statements[i].text)
     /\ f.statements[i].outcome = "ok"}

DatabaseCreations(f) ==
  {i \in 1..Len(f.statements) :
     /\ IsCreateDatabase(f.statements[i].text)
     /\ f.statements[i].outcome = "ok"}

\* f sent a CREATE after its own check found nothing, and was told that
\* the object already exists
LostRace(f, IsCreate_role, error) ==
  /\ Len(f.statements) >= 2
  /\ LET n == Len(f.statements) IN
     /\ f.statements[n].outcome = error
     /\ f.statements[n - 1].outcome = "None"
     /\ IF IsCreate_role
        THEN IsCreateRole(f.statements[n].text)
        ELSE IsCreateDatabase(f.statements[n].text)

FailsAsProvisioningError(f, error) ==
  f.pc = "done" =>
    /\ f.result.kind = "raise"
    /\ f.result = f.exc =>
         /\ f.result.type = "DBProvisioningError"
         /\ f.result.cause = error

C15_RaceFailsButNeverCreatesTwice ==
  /\ Cardinality(RoleCreations(Frame)) + Cardinality(RoleCreations(other)) <= 1
  /\ Cardinality(DatabaseCreations(Frame))
       + Cardinality(DatabaseCreations(other)) <= 1
  /\ Cardinality({d.datname : d \in pg_database}) = Cardinality(pg_database)
  /\ \A c \in {<<Frame, other>>, <<other, Frame>>} :
       /\ LostRace(c[1], TRUE, "DuplicateObjectError") =>
            /\ c[1].role \in pg_roles
            /\ RoleCreations(c[2]) # {}
            /\ FailsAsProvisioningError(c[1], "DuplicateObjectError")
       /\ LostRace(c[1], FALSE, "DuplicateDatabaseError") =>
            /\ c[1].database \in {d.datname : d \in pg_database}
            /\ DatabaseCreations(c[2]) # {}
            /\ FailsAsProvisioningError(c[1], "DuplicateDatabaseError")

\* both callers saw the role absent and sent CREATE ROLE; the one that came
\* second has failed although the role now exists
C15_Witness ==
  /\ pc = "done"
  /\ LostRace(Frame, TRUE, "DuplicateObjectError")
  /\ result.type = "DBProvisioningError"
  /\ result.cause = "DuplicateObjectError"
  /\ role \in pg_roles
  /\ other.statements # <<>>
  /\ other.statements[1].outcome = "None"
  /\ RoleCreations(other) = {2}

====
